---- MODULE Spec2Model ----
(***************************************************************************)
(* A model of camt_parser.py: the camt.052 ("Bank To Customer Account      *)
(* Report") parser and its to_dict_tree serializer.                        *)
(*                                                                         *)
(* An XML element is a record [tag, text, attrib, kids]; a tag is          *)
(* [ns, local], the "{ns}local" name ElementTree gives an element.         *)
(* Every Python value is a record with a field k naming its type, so that  *)
(* None, strings, numbers, lists, dicts and dataclass instances can share  *)
(* a field.  A call returns [exc, val, log]: exc is None or the exception  *)
(* raised, val the value returned, log the parsers entered and the         *)
(* children visited, in order.                                             *)
(***************************************************************************)
EXTENDS Integers, Sequences, FiniteSets, TLC

VARIABLES op, arg, res, out

vars == <<op, arg, res, out>>

(* ------------------------------------------------------------------ *)
(* Python values                                                        *)
(* ------------------------------------------------------------------ *)
None == [k |-> "None"]

Unbound == [k |-> "unbound"]

Str(s) == [k |-> "str", s |-> s]

PyInt(i) == [k |-> "int", i |-> i]

Bool(b) == [k |-> "bool", b |-> b]

Float(r) == [k |-> "float", repr |-> r]

Datetime(iso) == [k |-> "datetime", iso |-> iso]

List(items) == [k |-> "list", items |-> items]

Dict(items) == [k |-> "dict", items |-> items]

\* Python truthiness, as used by "x if x else None".
Truthy(v) ==
    CASE v.k = "None" -> FALSE
      [] v.k = "str" -> v.s # ""
      [] v.k = "list" -> Len(v.items) > 0
      [] v.k = "dict" -> Len(v.items) > 0
      [] v.k = "int" -> v.i # 0
      [] v.k = "bool" -> v.b
      [] OTHER -> TRUE

(* ------------------------------------------------------------------ *)
(* Calls and exceptions                                                 *)
(* ------------------------------------------------------------------ *)
Exc(kind, tag, entity) == [k |-> "exc", kind |-> kind, tag |-> tag, entity |-> entity]

NoTag == [ns |-> "", local |-> ""]

ParseError(tag, entity) == Exc("ParseError", tag, entity)

Builtin(kind) == Exc(kind, NoTag, "")

Return(v) == [exc |-> None, val |-> v, log |-> <<>>]

Raise(e) == [exc |-> e, val |-> None, log |-> <<>>]

Raised(r) == r.exc # None

\* A call made from inside "name": the callee's log follows the entry.
Enter(name, r) == [r EXCEPT !.log = <<name>> \o r.log]

(* ------------------------------------------------------------------ *)
(* XML elements                                                         *)
(* ------------------------------------------------------------------ *)
NoAttrib == [a \in {} |-> ""]

Elem(ns, local, text, attrib, kids) ==
    [k |-> "Element", tag |-> [ns |-> ns, local |-> local], text |-> text,
     attrib |-> attrib, kids |-> kids]

\* The regular expression keeps what follows an optional "{...}" prefix.
strip_ns(tag) == tag.local

Stripped(tag) == [ns |-> "", local |-> strip_ns(tag)]

\* len(tree), tree[0]: indexing past the end raises IndexError.
len(tree) == Len(tree.kids)

(* ------------------------------------------------------------------ *)
(* Primitive decoders: the library functions on the texts of the model  *)
(* ------------------------------------------------------------------ *)
\* datetime.fromisoformat and isoformat(): text -> the isoformat of the instant.
IsoTable ==
    [t \in {"2024-01-01T00:00:00", "2024-01-01", "2024-01-02T10:30:00"} |->
        CASE t = "2024-01-01T00:00:00" -> "2024-01-01T00:00:00"
          [] t = "2024-01-01" -> "2024-01-01T00:00:00"
          [] t = "2024-01-02T10:30:00" -> "2024-01-02T10:30:00"]

fromisoformat(text) ==
    IF text.k # "str" THEN Raise(Builtin("TypeError"))
    ELSE IF text.s \in DOMAIN IsoTable THEN Return(Datetime(IsoTable[text.s]))
    ELSE Raise(Builtin("ValueError"))

\* int(text, base=10).
IntTable ==
    [t \in {"1", "2", " 3 ", "007"} |->
        CASE t = "1" -> 1 [] t = "2" -> 2 [] t = " 3 " -> 3 [] t = "007" -> 7]

int(text) ==
    IF text.k # "str" THEN Raise(Builtin("TypeError"))
    ELSE IF text.s \in DOMAIN IntTable THEN Return(PyInt(IntTable[text.s]))
    ELSE Raise(Builtin("ValueError"))

\* float(text), as the repr json.dumps prints.
FloatTable ==
    [t \in {"12.34", "12.340", "5", "1e2"} |->
        CASE t = "12.34" -> "12.34" [] t = "12.340" -> "12.34"
          [] t = "5" -> "5.0" [] t = "1e2" -> "100.0"]

float(text) ==
    IF text.k # "str" THEN Raise(Builtin("TypeError"))
    ELSE IF text.s \in DOMAIN FloatTable THEN Return(Float(FloatTable[text.s]))
    ELSE Raise(Builtin("ValueError"))

\* "true" in text.lower()
LowerHasTrue == {"true", "TRUE", "True", "untrue", " true "}

contains_true(text) ==
    IF text.k # "str" THEN Raise(Builtin("AttributeError"))
    ELSE Return(Bool(text.s \in LowerHasTrue))

\* The for loop of a parse_xml: the locals start as init; effects[i] is what
\* the loop body does with child i: [exc, log] of the calls it makes, and the
\* assignment field := val (appended when append).  The loop stops at the
\* first exception.
\* As Loop, but a list field receives its items at the front.
Loop_prepending(entity, init, tree, effects) ==
    LET n == Len(tree.kids)
        f[i \in 0..n] ==
            IF i = 0 THEN [exc |-> None, val |-> init, log |-> <<entity>>]
            ELSE LET p == f[i - 1]
                     e == effects[i]
                     seen == p.log \o <<strip_ns(tree.kids[i].tag)>> \o e.log
                 IN  IF Raised(p) THEN p
                     ELSE IF e.exc # None THEN [exc |-> e.exc, val |-> None, log |-> seen]
                     ELSE IF e.field = "" THEN [p EXCEPT !.log = seen]
                     ELSE [exc |-> None,
                           val |-> [p.val EXCEPT ![e.field] =
                                       IF e.append THEN List(<<e.val>> \o @.items)
                                       ELSE e.val],
                           log |-> seen]
    IN  f[n]

\* As Loop, but an exception does not end the loop: the remaining children
\* are visited and the last exception is the one raised.
Loop_keeps_going(entity, init, tree, effects) ==
    LET n == Len(tree.kids)
        f[i \in 0..n] ==
            IF i = 0 THEN [exc |-> None, val |-> init, log |-> <<entity>>]
            ELSE LET p == f[i - 1]
                     e == effects[i]
                     seen == p.log \o <<strip_ns(tree.kids[i].tag)>> \o e.log
                 IN  IF e.exc # None
                     THEN [exc |-> e.exc, val |-> None, log |-> seen]
                     ELSE IF Raised(p) \/ e.field = "" THEN [p EXCEPT !.log = seen]
                     ELSE [exc |-> None,
                           val |-> [p.val EXCEPT ![e.field] =
                                       IF e.append THEN List(Append(@.items, e.val))
                                       ELSE e.val],
                           log |-> seen]
    IN  f[n]

Loop(entity, init, tree, effects) ==
    LET n == Len(tree.kids)
        f[i \in 0..n] ==
            IF i = 0 THEN [exc |-> None, val |-> init, log |-> <<entity>>]
            ELSE LET p == f[i - 1]
                     e == effects[i]
                     seen == p.log \o <<strip_ns(tree.kids[i].tag)>> \o e.log
                 IN  IF Raised(p) THEN p
                     ELSE IF e.exc # None
                          THEN [exc |-> e.exc, val |-> None, log |-> seen]
                     ELSE IF e.field = "" THEN [p EXCEPT !.log = seen]
                     ELSE [exc |-> None,
                           val |-> [p.val EXCEPT ![e.field] =
                                       IF e.append THEN List(Append(@.items, e.val))
                                       ELSE e.val],
                           log |-> seen]
    IN  f[n]

\* What a loop body does: field := the value r returns.
Assign(field, r) ==
    [exc |-> r.exc, log |-> r.log, field |-> field, val |-> r.val, append |-> FALSE]

AppendTo(field, r) ==
    [exc |-> r.exc, log |-> r.log, field |-> field, val |-> r.val, append |-> TRUE]

Pass == [exc |-> None, log |-> <<>>, field |-> "", val |-> None, append |-> FALSE]

\* parse_date_or_datetime
parse_date_or_datetime(tree) ==
    Enter("parse_date_or_datetime",
        IF len(tree) # 1 THEN Raise(ParseError(NoTag, "Dt"))
        ELSE IF strip_ns(tree.kids[1].tag) # "Dt" /\ strip_ns(tree.kids[1].tag) # "DtTm"
             THEN Raise(ParseError(NoTag, "Dt"))
        ELSE fromisoformat(tree.kids[1].text))

\* parse_generic_kv_list: a dict comprehension; a repeated key keeps its first
\* position and takes the last value.
RECURSIVE DictPut(_, _, _)
DictPut(items, key, v) ==
    IF items = <<>> THEN <<[key |-> key, val |-> v]>>
    ELSE IF Head(items).key = key THEN <<[key |-> key, val |-> v]>> \o Tail(items)
    ELSE <<Head(items)>> \o DictPut(Tail(items), key, v)

parse_generic_kv_list(tree) ==
    LET f[i \in 0..Len(tree.kids)] ==
            IF i = 0 THEN <<>>
            ELSE DictPut(f[i - 1], strip_ns(tree.kids[i].tag), tree.kids[i].text)
    IN  Enter("parse_generic_kv_list", Return(Dict(f[Len(tree.kids)])))

(* ------------------------------------------------------------------ *)
(* Leaf entity parsers                                                  *)
(* ------------------------------------------------------------------ *)
UnknownChild(child, entity) == Assign("", Raise(ParseError(Stripped(child.tag), entity)))

MessagePagination_child(child) ==
    IF strip_ns(child.tag) = "PgNb" THEN Assign("page_number", int(child.text))
    ELSE IF strip_ns(child.tag) = "LastPgInd"
         THEN Assign("last_page_indication", contains_true(child.text))
    \* the message holds child.tag as it is, namespace included
    ELSE Assign("", Raise(ParseError(child.tag, "MessagePagination")))

MessagePagination_parse_xml(tree) ==
    Loop("MessagePagination",
         [k |-> "MessagePagination", page_number |-> None, last_page_indication |-> None],
         tree, [i \in 1..Len(tree.kids) |-> MessagePagination_child(tree.kids[i])])

GroupHeader_child(child) ==
    IF strip_ns(child.tag) = "MsgId" THEN Assign("message_identification", Return(child.text))
    ELSE IF strip_ns(child.tag) = "CreDtTm" THEN Assign("creation_time", fromisoformat(child.text))
    ELSE IF strip_ns(child.tag) = "MsgPgntn"
         THEN Assign("message_pagination", MessagePagination_parse_xml(child))
    ELSE Assign("", Raise(ParseError(child.tag, "GroupHeader")))

GroupHeader_parse_xml(tree) ==
    Loop("GroupHeader",
         [k |-> "GroupHeader", message_identification |-> None, creation_time |-> None,
          message_pagination |-> None],
         tree, [i \in 1..Len(tree.kids) |-> GroupHeader_child(tree.kids[i])])

FinancialInstitutionIdentification_child(child) ==
    IF strip_ns(child.tag) = "BIC" THEN Assign("bicfi", Return(child.text))
    ELSE IF strip_ns(child.tag) = "Nm" THEN Assign("name", Return(child.text))
    ELSE IF strip_ns(child.tag) = "Othr" THEN Assign("other", parse_generic_kv_list(child))
    ELSE UnknownChild(child, "FinancialInstitutionIdentification")

FinancialInstitutionIdentification_parse_xml(tree) ==
    Loop("FinancialInstitutionIdentification",
         [k |-> "FinancialInstitutionIdentification", bicfi |-> None, name |-> None,
          other |-> None],
         tree,
         [i \in 1..Len(tree.kids) |-> FinancialInstitutionIdentification_child(tree.kids[i])])

Servicer_child(child) ==
    IF strip_ns(child.tag) = "FinInstnId"
    THEN Assign("financial_institution_identification",
                FinancialInstitutionIdentification_parse_xml(child))
    ELSE UnknownChild(child, "Servicer")

Servicer_parse_xml(tree) ==
    Loop("Servicer", [k |-> "Servicer", financial_institution_identification |-> None],
         tree, [i \in 1..Len(tree.kids) |-> Servicer_child(tree.kids[i])])

\* assert strip_ns(child[0].tag) == "IBAN"; iban = child[0].text
IdIban(child) ==
    IF len(child) = 0 THEN Raise(Builtin("IndexError"))
    ELSE IF strip_ns(child.kids[1].tag) # "IBAN" THEN Raise(Builtin("AssertionError"))
    ELSE Return(child.kids[1].text)

Account_child(child) ==
    IF strip_ns(child.tag) = "Id" THEN Assign("iban", IdIban(child))
    ELSE IF strip_ns(child.tag) = "Ccy" THEN Assign("currency", Return(child.text))
    ELSE IF strip_ns(child.tag) = "Svcr" THEN Assign("servicer", Servicer_parse_xml(child))
    ELSE UnknownChild(child, "Account")

Account_parse_xml(tree) ==
    Loop("Account", [k |-> "Account", iban |-> None, currency |-> None, servicer |-> None],
         tree, [i \in 1..Len(tree.kids) |-> Account_child(tree.kids[i])])

\* Enum lookup by value: EnumClass(text).
EnumMember(class, name, value) == [k |-> class, name |-> name, value |-> value]

EnumLookup(class, names, text) ==
    IF text.k = "str" /\ text.s \in DOMAIN names
    THEN Return(EnumMember(class, names[text.s], text.s))
    ELSE Raise(Builtin("ValueError"))

BalanceTypeNames ==
    [v \in {"CLAV", "CLBD", "FWAV", "OPBD", "PRCD", "OPAV"} |->
        CASE v = "CLAV" -> "ClosingAvailable" [] v = "CLBD" -> "ClosingBooked"
          [] v = "FWAV" -> "ForwardAvailable" [] v = "OPBD" -> "OpeningBooked"
          [] v = "PRCD" -> "PreviouslyClosed" [] v = "OPAV" -> "OpeningAvailable"]

BalanceType(text) == EnumLookup("BalanceType", BalanceTypeNames, text)

\* As BalanceType.parse_xml, without the count of the children of CdOrPrtry.
BalanceType_parse_xml_first_code(tree) ==
    Enter("BalanceType",
        IF ~ (/\ len(tree) = 1
              /\ strip_ns(tree.kids[1].tag) = "CdOrPrtry"
              /\ len(tree.kids[1]) >= 1
              /\ strip_ns(tree.kids[1].kids[1].tag) = "Cd")
        THEN Raise(Builtin("AssertionError"))
        ELSE BalanceType(tree.kids[1].kids[1].text))

BalanceType_parse_xml(tree) ==
    Enter("BalanceType",
        IF ~ (/\ len(tree) = 1
              /\ strip_ns(tree.kids[1].tag) = "CdOrPrtry"
              /\ len(tree.kids[1]) = 1
              /\ strip_ns(tree.kids[1].kids[1].tag) = "Cd")
        THEN Raise(Builtin("AssertionError"))
        ELSE BalanceType(tree.kids[1].kids[1].text))

CreditDebitNames ==
    [v \in {"CRDT", "DBIT"} |-> IF v = "CRDT" THEN "Credit" ELSE "Debit"]

CreditDebit(text) == EnumLookup("CreditDebit", CreditDebitNames, text)

\* Amount(float(tree.text), tree.attrib["Ccy"])
Amount_parse_xml(tree) ==
    Enter("Amount",
        LET v == float(tree.text)
        IN  IF Raised(v) THEN v
            ELSE IF "Ccy" \notin DOMAIN tree.attrib THEN Raise(Builtin("KeyError"))
            ELSE Return([k |-> "Amount", value |-> v.val,
                         currency |-> Str(tree.attrib["Ccy"])]))

Balance_child(child) ==
    IF strip_ns(child.tag) = "Tp" THEN Assign("balance_type", BalanceType_parse_xml(child))
    ELSE IF strip_ns(child.tag) = "Amt" THEN Assign("amount", Amount_parse_xml(child))
    ELSE IF strip_ns(child.tag) = "CdtDbtInd" THEN Assign("credit_debit", CreditDebit(child.text))
    ELSE IF strip_ns(child.tag) = "Dt" THEN Assign("date", parse_date_or_datetime(child))
    ELSE UnknownChild(child, "Balance")

Balance_parse_xml(tree) ==
    Loop("Balance",
         [k |-> "Balance", balance_type |-> None, amount |-> None, credit_debit |-> None,
          date |-> None],
         tree, [i \in 1..Len(tree.kids) |-> Balance_child(tree.kids[i])])

EntryStatusNames ==
    [v \in {"BOOK", "INFO", "PDNG", "FUTR"} |->
        CASE v = "BOOK" -> "Booked" [] v = "INFO" -> "Information"
          [] v = "PDNG" -> "Pending" [] v = "FUTR" -> "Future"]

EntryStatus(text) == EnumLookup("EntryStatus", EntryStatusNames, text)

ProprietaryReference_child(child) ==
    IF strip_ns(child.tag) = "Tp" THEN Assign("reference_type", Return(child.text))
    ELSE IF strip_ns(child.tag) = "Ref" THEN Assign("reference", Return(child.text))
    ELSE UnknownChild(child, "ProprietaryReference")

ProprietaryReference_parse_xml(tree) ==
    Loop("ProprietaryReference",
         [k |-> "ProprietaryReference", reference_type |-> None, reference |-> None],
         tree, [i \in 1..Len(tree.kids) |-> ProprietaryReference_child(tree.kids[i])])

References_child(child) ==
    IF strip_ns(child.tag) = "EndToEndId"
    THEN Assign("end_to_end_identification", Return(child.text))
    ELSE IF strip_ns(child.tag) = "MndtId"
         THEN Assign("mandate_identification", Return(child.text))
    ELSE IF strip_ns(child.tag) = "Prtry"
         THEN AppendTo("proprietary_reference", ProprietaryReference_parse_xml(child))
    ELSE UnknownChild(child, "References")

References_parse_xml(tree) ==
    Loop("References",
         [k |-> "References", end_to_end_identification |-> None,
          mandate_identification |-> None, proprietary_reference |-> List(<<>>)],
         tree, [i \in 1..Len(tree.kids) |-> References_child(tree.kids[i])])

ProprietaryBankTransactionCode_child(child) ==
    IF strip_ns(child.tag) = "Cd" THEN Assign("code", Return(child.text))
    ELSE IF strip_ns(child.tag) = "Issr" THEN Assign("issuer", Return(child.text))
    ELSE UnknownChild(child, "ProprietaryBankTransactionCode")

ProprietaryBankTransactionCode_parse_xml(tree) ==
    Loop("ProprietaryBankTransactionCode",
         [k |-> "ProprietaryBankTransactionCode", code |-> None, issuer |-> None],
         tree,
         [i \in 1..Len(tree.kids) |-> ProprietaryBankTransactionCode_child(tree.kids[i])])

\* The message names tree.tag, the BkTxCd element itself, not its child.
parse_bank_transaction_code_from_xml(tree) ==
    Enter("parse_bank_transaction_code_from_xml",
        IF len(tree) # 1 THEN Raise(Builtin("AssertionError"))
        ELSE IF strip_ns(tree.kids[1].tag) = "Prtry"
             THEN ProprietaryBankTransactionCode_parse_xml(tree.kids[1])
        ELSE Raise(ParseError(Stripped(tree.tag), "BankTransactionCode")))

PrivateIdentification_child(child) ==
    IF strip_ns(child.tag) = "Othr" THEN Assign("other", parse_generic_kv_list(child))
    ELSE UnknownChild(child, "PrivateIdentification")

PrivateIdentification_parse_xml(tree) ==
    Loop("PrivateIdentification", [k |-> "PrivateIdentification", other |-> None],
         tree, [i \in 1..Len(tree.kids) |-> PrivateIdentification_child(tree.kids[i])])

parse_identification_from_xml(tree) ==
    Enter("parse_identification_from_xml",
        IF len(tree) # 1 THEN Raise(Builtin("AssertionError"))
        ELSE IF strip_ns(tree.kids[1].tag) = "PrvtId"
             THEN PrivateIdentification_parse_xml(tree.kids[1])
        ELSE Raise(ParseError(Stripped(tree.tag), "Identification")))

PartyIdentification_child(child) ==
    IF strip_ns(child.tag) = "Nm" THEN Assign("name", Return(child.text))
    ELSE IF strip_ns(child.tag) = "Id"
         THEN Assign("identification", parse_identification_from_xml(child))
    ELSE UnknownChild(child, "PartyIdentification")

PartyIdentification_parse_xml(tree) ==
    Loop("PartyIdentification",
         [k |-> "PartyIdentification", name |-> None, identification |-> None],
         tree, [i \in 1..Len(tree.kids) |-> PartyIdentification_child(tree.kids[i])])

(* ------------------------------------------------------------------ *)
(* Composite entity parsers                                             *)
(* ------------------------------------------------------------------ *)
\* As parse_partchoice_from_xml, without the test that the child is the only one.
parse_partchoice_first_child(tree) ==
    Enter("parse_partchoice_from_xml",
        IF len(tree) >= 1 /\ strip_ns(tree.kids[1].tag) = "FinInstnId"
        THEN FinancialInstitutionIdentification_parse_xml(tree.kids[1])
        ELSE PartyIdentification_parse_xml(tree))

parse_partchoice_from_xml(tree) ==
    Enter("parse_partchoice_from_xml",
        IF len(tree) = 1 /\ strip_ns(tree.kids[1].tag) = "FinInstnId"
        THEN FinancialInstitutionIdentification_parse_xml(tree.kids[1])
        ELSE PartyIdentification_parse_xml(tree))

CashAccount_child(child) ==
    IF strip_ns(child.tag) = "Id" THEN Assign("iban", IdIban(child))
    ELSE UnknownChild(child, "CashAccount")

CashAccount_parse_xml(tree) ==
    Loop("CashAccount", [k |-> "CashAccount", iban |-> None],
         tree, [i \in 1..Len(tree.kids) |-> CashAccount_child(tree.kids[i])])

RelatedParties_child(child) ==
    IF strip_ns(child.tag) = "Dbtr" THEN Assign("debtor", parse_partchoice_from_xml(child))
    ELSE IF strip_ns(child.tag) = "DbtrAcct"
         THEN Assign("debtor_account", CashAccount_parse_xml(child))
    ELSE IF strip_ns(child.tag) = "Cdtr"
         THEN Assign("creditor", parse_partchoice_from_xml(child))
    ELSE IF strip_ns(child.tag) = "CdtrAcct"
         THEN Assign("creditor_account", CashAccount_parse_xml(child))
    ELSE UnknownChild(child, "RelatedParties")

RelatedParties_parse_xml(tree) ==
    Loop("RelatedParties",
         [k |-> "RelatedParties", debtor |-> None, debtor_account |-> None,
          creditor |-> None, creditor_account |-> None],
         tree, [i \in 1..Len(tree.kids) |-> RelatedParties_child(tree.kids[i])])

\* assert len(child[0]) == 1 and strip_ns(child[0].tag) == "FinInstnId", then
\* FinancialInstitutionIdentification.parse_xml(child[0])
AgentWrapper(child) ==
    IF len(child) = 0 THEN Raise(Builtin("IndexError"))
    ELSE IF ~ (len(child.kids[1]) = 1 /\ strip_ns(child.kids[1].tag) = "FinInstnId")
         THEN Raise(Builtin("AssertionError"))
    ELSE FinancialInstitutionIdentification_parse_xml(child.kids[1])

RelatedAgents_child(child) ==
    IF strip_ns(child.tag) = "DbtrAgt" THEN Assign("debtor_agent", AgentWrapper(child))
    ELSE IF strip_ns(child.tag) = "CdtrAgt" THEN Assign("creditor_agent", AgentWrapper(child))
    ELSE UnknownChild(child, "RelatedAgents")

RelatedAgents_parse_xml(tree) ==
    Loop("RelatedAgents",
         [k |-> "RelatedAgents", debtor_agent |-> None, creditor_agent |-> None],
         tree, [i \in 1..Len(tree.kids) |-> RelatedAgents_child(tree.kids[i])])

RelatedRemittanceInformation_child(child) ==
    IF strip_ns(child.tag) = "Ustrd" THEN Assign("unstructured", Return(child.text))
    ELSE UnknownChild(child, "RelatedRemittanceInformation")

RelatedRemittanceInformation_parse_xml(tree) ==
    Loop("RelatedRemittanceInformation",
         [k |-> "RelatedRemittanceInformation", unstructured |-> None],
         tree,
         [i \in 1..Len(tree.kids) |-> RelatedRemittanceInformation_child(tree.kids[i])])

TransactionDetails_child(child) ==
    IF strip_ns(child.tag) = "Refs" THEN Assign("references", References_parse_xml(child))
    ELSE IF strip_ns(child.tag) = "BkTxCd"
         THEN Assign("bank_transaction_code", parse_bank_transaction_code_from_xml(child))
    ELSE IF strip_ns(child.tag) = "RltdPties"
         THEN Assign("related_parties", RelatedParties_parse_xml(child))
    ELSE IF strip_ns(child.tag) = "RltdAgts"
         THEN Assign("related_agents", RelatedAgents_parse_xml(child))
    ELSE IF strip_ns(child.tag) = "RmtInf"
         THEN AppendTo("related_remittance_information",
                       RelatedRemittanceInformation_parse_xml(child))
    ELSE UnknownChild(child, "TransactionDetails")

\* The locals: related_agent is set to None before the loop, related_agents is
\* bound only by a RltdAgts child and read by the return statement.
TransactionDetails_locals ==
    [references |-> None, bank_transaction_code |-> None, related_parties |-> None,
     related_agent |-> None, related_agents |-> Unbound,
     related_remittance_information |-> List(<<>>)]

TransactionDetails_parse_xml(tree) ==
    LET r == Loop("TransactionDetails", TransactionDetails_locals, tree,
                  [i \in 1..Len(tree.kids) |-> TransactionDetails_child(tree.kids[i])])
    IN  IF Raised(r) THEN r
        ELSE IF r.val.related_agents = Unbound
             THEN [r EXCEPT !.exc = Builtin("UnboundLocalError"), !.val = None]
        ELSE [r EXCEPT !.val =
                [k |-> "TransactionDetails",
                 references |-> r.val.references,
                 bank_transaction_code |-> r.val.bank_transaction_code,
                 related_parties |-> r.val.related_parties,
                 related_agents |-> r.val.related_agents,
                 related_remittance_information |-> r.val.related_remittance_information]]

EntryDetails_child(child) ==
    IF strip_ns(child.tag) = "TxDtls"
    THEN Assign("transaction_details", TransactionDetails_parse_xml(child))
    ELSE UnknownChild(child, "EntryDetails")

EntryDetails_parse_xml(tree) ==
    Loop("EntryDetails", [k |-> "EntryDetails", transaction_details |-> None],
         tree, [i \in 1..Len(tree.kids) |-> EntryDetails_child(tree.kids[i])])

\* As Entry_child, with a BkTxCd child parsed as TransactionDetails parses it.
Entry_child_inspecting(child) ==
    IF strip_ns(child.tag) = "Amt" THEN Assign("amount", Amount_parse_xml(child))
    ELSE IF strip_ns(child.tag) = "CdtDbtInd" THEN Assign("credit_debit", CreditDebit(child.text))
    ELSE IF strip_ns(child.tag) = "Sts" THEN Assign("status", EntryStatus(child.text))
    ELSE IF strip_ns(child.tag) = "BookgDt"
         THEN Assign("booking_date", parse_date_or_datetime(child))
    ELSE IF strip_ns(child.tag) = "ValDt"
         THEN Assign("value_date", parse_date_or_datetime(child))
    ELSE IF strip_ns(child.tag) = "AcctSvcrRef"
         THEN Assign("account_service_reference", Return(child.text))
    ELSE IF strip_ns(child.tag) = "NtryDtls"
         THEN AppendTo("details", EntryDetails_parse_xml(child))
    ELSE IF strip_ns(child.tag) = "AddtlNtryInf"
         THEN Assign("additional_information", Return(child.text))
    ELSE IF strip_ns(child.tag) = "BkTxCd"
         THEN Assign("", parse_bank_transaction_code_from_xml(child))
    ELSE UnknownChild(child, "Entry")

Entry_child(child) ==
    IF strip_ns(child.tag) = "Amt" THEN Assign("amount", Amount_parse_xml(child))
    ELSE IF strip_ns(child.tag) = "CdtDbtInd" THEN Assign("credit_debit", CreditDebit(child.text))
    ELSE IF strip_ns(child.tag) = "Sts" THEN Assign("status", EntryStatus(child.text))
    ELSE IF strip_ns(child.tag) = "BookgDt"
         THEN Assign("booking_date", parse_date_or_datetime(child))
    ELSE IF strip_ns(child.tag) = "ValDt"
         THEN Assign("value_date", parse_date_or_datetime(child))
    ELSE IF strip_ns(child.tag) = "AcctSvcrRef"
         THEN Assign("account_service_reference", Return(child.text))
    ELSE IF strip_ns(child.tag) = "NtryDtls"
         THEN AppendTo("details", EntryDetails_parse_xml(child))
    ELSE IF strip_ns(child.tag) = "AddtlNtryInf"
         THEN Assign("additional_information", Return(child.text))
    ELSE IF strip_ns(child.tag) = "BkTxCd" THEN Pass
    ELSE UnknownChild(child, "Entry")

Entry_parse_xml(tree) ==
    Loop("Entry",
         [k |-> "Entry", amount |-> None, credit_debit |-> None, status |-> None,
          booking_date |-> None, value_date |-> None, account_service_reference |-> None,
          details |-> List(<<>>), additional_information |-> None],
         tree, [i \in 1..Len(tree.kids) |-> Entry_child(tree.kids[i])])

(* ------------------------------------------------------------------ *)
(* Document assembler                                                   *)
(* ------------------------------------------------------------------ *)
Report_child(child) ==
    IF strip_ns(child.tag) = "Id" THEN Assign("identification", Return(child.text))
    ELSE IF strip_ns(child.tag) = "ElctrncSeqNb"
         THEN Assign("eletronic_sequence_number", int(child.text))
    ELSE IF strip_ns(child.tag) = "CreDtTm" THEN Assign("creation_time", fromisoformat(child.text))
    ELSE IF strip_ns(child.tag) = "Acct" THEN Assign("account", Account_parse_xml(child))
    ELSE IF strip_ns(child.tag) = "Bal" THEN AppendTo("balances", Balance_parse_xml(child))
    ELSE IF strip_ns(child.tag) = "Ntry" THEN AppendTo("entries", Entry_parse_xml(child))
    ELSE UnknownChild(child, "Report")

Report_parse_xml(tree) ==
    Loop("Report",
         [k |-> "Report", identification |-> None, eletronic_sequence_number |-> None,
          creation_time |-> None, account |-> None, balances |-> List(<<>>),
          entries |-> List(<<>>)],
         tree, [i \in 1..Len(tree.kids) |-> Report_child(tree.kids[i])])

BankToCustomerAccountReport_child(child) ==
    IF strip_ns(child.tag) = "GrpHdr" THEN Assign("group_header", GroupHeader_parse_xml(child))
    ELSE IF strip_ns(child.tag) = "Rpt" THEN AppendTo("reports", Report_parse_xml(child))
    ELSE UnknownChild(child, "BkToCstmrAcctRpt")

BankToCustomerAccountReport_parse_xml(tree) ==
    Loop("BankToCustomerAccountReport",
         [k |-> "BankToCustomerAccountReport", group_header |-> None,
          reports |-> List(<<>>)],
         tree, [i \in 1..Len(tree.kids) |-> BankToCustomerAccountReport_child(tree.kids[i])])

\* xml.etree.ElementTree: parse(path) returns an ElementTree object holding the
\* root element, fromstring(data) returns the root Element itself.  The
\* argument is the element tree of the well-formed text.
ElementTree_parse(doc) == [k |-> "ElementTree", root |-> doc]

ElementTree_fromstring(doc) == doc

\* tree.getroot(): a method of ElementTree, not of Element.
getroot(tree) ==
    IF tree.k = "ElementTree" THEN Return(tree.root) ELSE Raise(Builtin("AttributeError"))

\* As parse_etree, without the count of the root's children.
parse_etree_first_child(tree) ==
    LET root == getroot(tree)
    IN  IF Raised(root) THEN root
        ELSE IF strip_ns(root.val.tag) # "Document"
             THEN Raise(ParseError(NoTag, "Root"))
        ELSE IF len(root.val) < 1 \/ strip_ns(root.val.kids[1].tag) # "BkToCstmrAcctRpt"
             THEN Raise(ParseError(NoTag, "Document"))
        ELSE BankToCustomerAccountReport_parse_xml(root.val.kids[1])

parse_etree(tree) ==
    LET root == getroot(tree)
    IN  IF Raised(root) THEN root
        ELSE IF strip_ns(root.val.tag) # "Document"
             THEN Raise(ParseError(NoTag, "Root"))
        ELSE IF len(root.val) # 1 \/ strip_ns(root.val.kids[1].tag) # "BkToCstmrAcctRpt"
             THEN Raise(ParseError(NoTag, "Document"))
        ELSE BankToCustomerAccountReport_parse_xml(root.val.kids[1])

parse_file(doc) == parse_etree(ElementTree_parse(doc))

parse_string(doc) == parse_etree(ElementTree_fromstring(doc))

(* ------------------------------------------------------------------ *)
(* Tree serializer                                                      *)
(* ------------------------------------------------------------------ *)
Obj(m) == [k |-> "obj", m |-> m]

Field(key, r) == [key |-> key, r |-> r]

\* A dict display {key: value, ...}: the values are evaluated in order, the
\* first exception ends it.
MakeDict(fields) ==
    LET bad == {i \in 1..Len(fields) : Raised(fields[i].r)}
        first == CHOOSE i \in bad : \A j \in bad : i <= j
        at(key) == CHOOSE i \in 1..Len(fields) : fields[i].key = key
    IN  IF bad # {} THEN Raise(fields[first].r.exc)
        ELSE Return(Obj([key \in {fields[i].key : i \in 1..Len(fields)} |->
                            fields[at(key)].r.val]))

\* A list comprehension [x.to_dict_tree() for x in xs] over the results.
MakeList(results) ==
    LET bad == {i \in 1..Len(results) : Raised(results[i])}
        first == CHOOSE i \in bad : \A j \in bad : i <= j
    IN  IF bad # {} THEN Raise(results[first].exc)
        ELSE Return(List([i \in 1..Len(results) |-> results[i].val]))

\* x if x else None
OrNone(x) == Return(IF Truthy(x) THEN x ELSE None)

\* x.isoformat()
isoformat(x) ==
    IF x.k = "datetime" THEN Return(Str(x.iso)) ELSE Raise(Builtin("AttributeError"))

\* str(x) of an enum member is "Class.Name"; str(None) is "None".
EnumRepr ==
    [n \in {"ClosingAvailable", "ClosingBooked", "ForwardAvailable", "OpeningBooked",
            "PreviouslyClosed", "OpeningAvailable", "Credit", "Debit", "Booked",
            "Information", "Pending", "Future"} |->
        CASE n = "ClosingAvailable" -> "BalanceType.ClosingAvailable"
          [] n = "ClosingBooked" -> "BalanceType.ClosingBooked"
          [] n = "ForwardAvailable" -> "BalanceType.ForwardAvailable"
          [] n = "OpeningBooked" -> "BalanceType.OpeningBooked"
          [] n = "PreviouslyClosed" -> "BalanceType.PreviouslyClosed"
          [] n = "OpeningAvailable" -> "BalanceType.OpeningAvailable"
          [] n = "Credit" -> "CreditDebit.Credit"
          [] n = "Debit" -> "CreditDebit.Debit"
          [] n = "Booked" -> "EntryStatus.Booked"
          [] n = "Information" -> "EntryStatus.Information"
          [] n = "Pending" -> "EntryStatus.Pending"
          [] n = "Future" -> "EntryStatus.Future"]

str(x) == Return(Str(IF x.k = "None" THEN "None" ELSE EnumRepr[x.name]))

NoMethod == Raise(Builtin("AttributeError"))

MessagePagination_to_dict_tree(self) ==
    IF self.k # "MessagePagination" THEN NoMethod
    ELSE MakeDict(<<Field("pageNumber", Return(self.page_number)),
                    Field("last_page_indication", Return(self.last_page_indication))>>)

GroupHeader_to_dict_tree(self) ==
    IF self.k # "GroupHeader" THEN NoMethod
    ELSE MakeDict(<<Field("messageIdentification", Return(self.message_identification)),
                    Field("creationTime", isoformat(self.creation_time)),
                    Field("messagePagination",
                          IF Truthy(self.message_pagination)
                          THEN MessagePagination_to_dict_tree(self.message_pagination)
                          ELSE Return(None))>>)

FinancialInstitutionIdentification_to_dict_tree(self) ==
    IF self.k # "FinancialInstitutionIdentification" THEN NoMethod
    ELSE MakeDict(<<Field("bicfi", OrNone(self.bicfi)),
                    Field("name", OrNone(self.name)),
                    Field("other", OrNone(self.other))>>)

Servicer_to_dict_tree(self) ==
    IF self.k # "Servicer" THEN NoMethod
    ELSE MakeDict(<<Field("financialInstitutionIdentification",
                          IF Truthy(self.financial_institution_identification)
                          THEN FinancialInstitutionIdentification_to_dict_tree(
                                   self.financial_institution_identification)
                          ELSE Return(None))>>)

Account_to_dict_tree(self) ==
    IF self.k # "Account" THEN NoMethod
    ELSE MakeDict(<<Field("iban", Return(self.iban)),
                    Field("currency", OrNone(self.currency)),
                    Field("servicer",
                          IF Truthy(self.servicer) THEN Servicer_to_dict_tree(self.servicer)
                          ELSE Return(None))>>)

Amount_to_dict_tree(self) ==
    IF self.k # "Amount" THEN NoMethod
    ELSE MakeDict(<<Field("value", Return(self.value)),
                    Field("currency", Return(self.currency))>>)

Balance_to_dict_tree(self) ==
    IF self.k # "Balance" THEN NoMethod
    ELSE MakeDict(<<Field("balanceType", str(self.balance_type)),
                    Field("amount", Amount_to_dict_tree(self.amount)),
                    Field("creditDebit", str(self.credit_debit)),
                    Field("date", isoformat(self.date))>>)

ProprietaryReference_to_dict_tree(self) ==
    IF self.k # "ProprietaryReference" THEN NoMethod
    ELSE MakeDict(<<Field("type", Return(self.reference_type)),
                    Field("reference", Return(self.reference))>>)

References_to_dict_tree(self) ==
    IF self.k # "References" THEN NoMethod
    ELSE MakeDict(<<Field("end_to_end_identification", OrNone(self.end_to_end_identification)),
                    Field("mandate_identification", OrNone(self.mandate_identification)),
                    Field("proprietaryReference",
                          MakeList([i \in 1..Len(self.proprietary_reference.items) |->
                              ProprietaryReference_to_dict_tree(
                                  self.proprietary_reference.items[i])]))>>)

ProprietaryBankTransactionCode_to_dict_tree(self) ==
    IF self.k # "ProprietaryBankTransactionCode" THEN NoMethod
    ELSE MakeDict(<<Field("code", Return(self.code)), Field("issuer", Return(self.issuer))>>)

PrivateIdentification_to_dict_tree(self) ==
    IF self.k # "PrivateIdentification" THEN NoMethod
    ELSE MakeDict(<<Field("other", OrNone(self.other))>>)

PartyIdentification_to_dict_tree(self) ==
    IF self.k # "PartyIdentification" THEN NoMethod
    ELSE MakeDict(<<Field("name", OrNone(self.name)),
                    Field("identification",
                          IF Truthy(self.identification)
                          THEN PrivateIdentification_to_dict_tree(self.identification)
                          ELSE Return(None))>>)

\* self.debtor.to_dict_tree(): the method of whichever class the value has.
PartyChoice_to_dict_tree(self) ==
    IF self.k = "FinancialInstitutionIdentification"
    THEN FinancialInstitutionIdentification_to_dict_tree(self)
    ELSE PartyIdentification_to_dict_tree(self)

CashAccount_to_dict_tree(self) ==
    IF self.k # "CashAccount" THEN NoMethod
    ELSE MakeDict(<<Field("iban", Return(self.iban))>>)

RelatedParties_to_dict_tree(self) ==
    IF self.k # "RelatedParties" THEN NoMethod
    ELSE MakeDict(<<Field("debtor",
                          IF Truthy(self.debtor) THEN PartyChoice_to_dict_tree(self.debtor)
                          ELSE Return(None)),
                    Field("debtorAccount",
                          IF Truthy(self.debtor_account)
                          THEN CashAccount_to_dict_tree(self.debtor_account)
                          ELSE Return(None)),
                    Field("creditor",
                          IF Truthy(self.creditor) THEN PartyChoice_to_dict_tree(self.creditor)
                          ELSE Return(None)),
                    Field("creditorAccount",
                          IF Truthy(self.creditor_account)
                          THEN CashAccount_to_dict_tree(self.creditor_account)
                          ELSE Return(None))>>)

\* Both agents are serialized without a test for None.
RelatedAgents_to_dict_tree(self) ==
    IF self.k # "RelatedAgents" THEN NoMethod
    ELSE MakeDict(<<Field("debtorAgent",
                          FinancialInstitutionIdentification_to_dict_tree(self.debtor_agent)),
                    Field("creditorAgent",
                          FinancialInstitutionIdentification_to_dict_tree(
                              self.creditor_agent))>>)

RelatedRemittanceInformation_to_dict_tree(self) ==
    IF self.k # "RelatedRemittanceInformation" THEN NoMethod
    ELSE MakeDict(<<Field("unstructured", Return(self.unstructured))>>)

TransactionDetails_to_dict_tree(self) ==
    IF self.k # "TransactionDetails" THEN NoMethod
    ELSE MakeDict(<<Field("references",
                          IF Truthy(self.references) THEN References_to_dict_tree(self.references)
                          ELSE Return(None)),
                    Field("bankTransactionCode",
                          IF Truthy(self.bank_transaction_code)
                          THEN ProprietaryBankTransactionCode_to_dict_tree(
                                   self.bank_transaction_code)
                          ELSE Return(None)),
                    Field("relatedAgents",
                          IF Truthy(self.related_agents)
                          THEN RelatedAgents_to_dict_tree(self.related_agents)
                          ELSE Return(None)),
                    Field("relatedParties",
                          IF Truthy(self.related_parties)
                          THEN RelatedParties_to_dict_tree(self.related_parties)
                          ELSE Return(None)),
                    Field("relatedRemittanceInformation",
                          MakeList([i \in 1..Len(self.related_remittance_information.items) |->
                              RelatedRemittanceInformation_to_dict_tree(
                                  self.related_remittance_information.items[i])]))>>)

EntryDetails_to_dict_tree(self) ==
    IF self.k # "EntryDetails" THEN NoMethod
    ELSE MakeDict(<<Field("transactionDetails",
                          TransactionDetails_to_dict_tree(self.transaction_details))>>)

Entry_to_dict_tree(self) ==
    IF self.k # "Entry" THEN NoMethod
    ELSE MakeDict(<<Field("amount", Amount_to_dict_tree(self.amount)),
                    Field("creditDebit", str(self.credit_debit)),
                    Field("status", str(self.status)),
                    Field("bookingDate",
                          IF Truthy(self.booking_date) THEN isoformat(self.booking_date)
                          ELSE Return(None)),
                    Field("valueDate",
                          IF Truthy(self.value_date) THEN isoformat(self.value_date)
                          ELSE Return(None)),
                    Field("accountServiceReference", Return(self.account_service_reference)),
                    Field("details",
                          MakeList([i \in 1..Len(self.details.items) |->
                              EntryDetails_to_dict_tree(self.details.items[i])])),
                    Field("additionalInformation", Return(self.additional_information))>>)

Report_to_dict_tree(self) ==
    IF self.k # "Report" THEN NoMethod
    ELSE MakeDict(<<Field("identification", Return(self.identification)),
                    Field("eletronicSequenceNumber", Return(self.eletronic_sequence_number)),
                    Field("creationTime",
                          IF Truthy(self.creation_time) THEN isoformat(self.creation_time)
                          ELSE Return(None)),
                    Field("account", Account_to_dict_tree(self.account)),
                    Field("balances",
                          MakeList([i \in 1..Len(self.balances.items) |->
                              Balance_to_dict_tree(self.balances.items[i])])),
                    Field("entries",
                          MakeList([i \in 1..Len(self.entries.items) |->
                              Entry_to_dict_tree(self.entries.items[i])]))>>)

BankToCustomerAccountReport_to_dict_tree(self) ==
    IF self.k # "BankToCustomerAccountReport" THEN NoMethod
    ELSE MakeDict(<<Field("groupHeader", GroupHeader_to_dict_tree(self.group_header)),
                    Field("reports",
                          MakeList([i \in 1..Len(self.reports.items) |->
                              Report_to_dict_tree(self.reports.items[i])]))>>)

\* x.to_dict_tree() for the value a parse_xml returned.
to_dict_tree(x) ==
    CASE x.k = "MessagePagination" -> MessagePagination_to_dict_tree(x)
      [] x.k = "GroupHeader" -> GroupHeader_to_dict_tree(x)
      [] x.k = "FinancialInstitutionIdentification" ->
            FinancialInstitutionIdentification_to_dict_tree(x)
      [] x.k = "Servicer" -> Servicer_to_dict_tree(x)
      [] x.k = "Account" -> Account_to_dict_tree(x)
      [] x.k = "Amount" -> Amount_to_dict_tree(x)
      [] x.k = "Balance" -> Balance_to_dict_tree(x)
      [] x.k = "ProprietaryReference" -> ProprietaryReference_to_dict_tree(x)
      [] x.k = "References" -> References_to_dict_tree(x)
      [] x.k = "ProprietaryBankTransactionCode" ->
            ProprietaryBankTransactionCode_to_dict_tree(x)
      [] x.k = "PrivateIdentification" -> PrivateIdentification_to_dict_tree(x)
      [] x.k = "PartyIdentification" -> PartyIdentification_to_dict_tree(x)
      [] x.k = "CashAccount" -> CashAccount_to_dict_tree(x)
      [] x.k = "RelatedParties" -> RelatedParties_to_dict_tree(x)
      [] x.k = "RelatedAgents" -> RelatedAgents_to_dict_tree(x)
      [] x.k = "RelatedRemittanceInformation" ->
            RelatedRemittanceInformation_to_dict_tree(x)
      [] x.k = "TransactionDetails" -> TransactionDetails_to_dict_tree(x)
      [] x.k = "EntryDetails" -> EntryDetails_to_dict_tree(x)
      [] x.k = "Entry" -> Entry_to_dict_tree(x)
      [] x.k = "Report" -> Report_to_dict_tree(x)
      [] x.k = "BankToCustomerAccountReport" -> BankToCustomerAccountReport_to_dict_tree(x)
      [] OTHER -> NoMethod

\* The parser of each element kind, by the name of the class or function.
Parse(entity, tree) ==
    CASE entity = "MessagePagination" -> MessagePagination_parse_xml(tree)
      [] entity = "GroupHeader" -> GroupHeader_parse_xml(tree)
      [] entity = "FinancialInstitutionIdentification" ->
            FinancialInstitutionIdentification_parse_xml(tree)
      [] entity = "Servicer" -> Servicer_parse_xml(tree)
      [] entity = "Account" -> Account_parse_xml(tree)
      [] entity = "BalanceType" -> BalanceType_parse_xml(tree)
      [] entity = "Amount" -> Amount_parse_xml(tree)
      [] entity = "DateOrDatetime" -> parse_date_or_datetime(tree)
      [] entity = "Balance" -> Balance_parse_xml(tree)
      [] entity = "ProprietaryReference" -> ProprietaryReference_parse_xml(tree)
      [] entity = "References" -> References_parse_xml(tree)
      [] entity = "ProprietaryBankTransactionCode" ->
            ProprietaryBankTransactionCode_parse_xml(tree)
      [] entity = "BankTransactionCode" -> parse_bank_transaction_code_from_xml(tree)
      [] entity = "PrivateIdentification" -> PrivateIdentification_parse_xml(tree)
      [] entity = "Identification" -> parse_identification_from_xml(tree)
      [] entity = "PartyIdentification" -> PartyIdentification_parse_xml(tree)
      [] entity = "PartyChoice" -> parse_partchoice_from_xml(tree)
      [] entity = "CashAccount" -> CashAccount_parse_xml(tree)
      [] entity = "RelatedParties" -> RelatedParties_parse_xml(tree)
      [] entity = "RelatedAgents" -> RelatedAgents_parse_xml(tree)
      [] entity = "RelatedRemittanceInformation" ->
            RelatedRemittanceInformation_parse_xml(tree)
      [] entity = "TransactionDetails" -> TransactionDetails_parse_xml(tree)
      [] entity = "EntryDetails" -> EntryDetails_parse_xml(tree)
      [] entity = "Entry" -> Entry_parse_xml(tree)
      [] entity = "Report" -> Report_parse_xml(tree)
      [] entity = "BankToCustomerAccountReport" -> BankToCustomerAccountReport_parse_xml(tree)

(* ------------------------------------------------------------------ *)
(* The inputs of the model: element trees built from a few children     *)
(* ------------------------------------------------------------------ *)
\* The most children, beyond its required ones, of an element given to a
\* parser directly, and of the varied element inside a whole document.
MaxKids == 2

MaxDocKids == 1

NS == "urn:iso:std:iso:20022:tech:xsd:camt.052.001.02"

E(local, kids) == Elem(NS, local, None, NoAttrib, kids)

T(local, s) == Elem(NS, local, Str(s), NoAttrib, <<>>)

Empty(local) == E(local, <<>>)

SeqsUpTo(S, n) == UNION {[1..m -> S] : m \in 0..n}

Foo == Empty("Foo")

FinInstnIdOK == E("FinInstnId", <<T("BIC", "BANKDEFF")>>)

FinInstnIdTwo == E("FinInstnId", <<T("BIC", "BANKDEFF"), T("Nm", "Bank")>>)

FinInstnIdBad == E("FinInstnId", <<Foo>>)

IdIBAN == E("Id", <<T("IBAN", "DE00")>>)

AmtOK == Elem(NS, "Amt", Str("12.34"), [a \in {"Ccy"} |-> "EUR"], <<>>)

TpOK == E("Tp", <<E("CdOrPrtry", <<T("Cd", "CLAV")>>)>>)

DtOK == E("Dt", <<T("Dt", "2024-01-01")>>)

RltdAgtsOK ==
    E("RltdAgts", <<E("DbtrAgt", <<FinInstnIdOK>>), E("CdtrAgt", <<FinInstnIdOK>>)>>)

TxDtlsOK == E("TxDtls", <<RltdAgtsOK>>)

GrpHdrOK == E("GrpHdr", <<T("MsgId", "MSG1"), T("CreDtTm", "2024-01-01T00:00:00")>>)

AcctOK == E("Acct", <<IdIBAN>>)

RptOK == E("Rpt", <<T("Id", "RPT1"), AcctOK>>)

Entities ==
    {"MessagePagination", "GroupHeader", "FinancialInstitutionIdentification", "Servicer",
     "Account", "BalanceType", "Amount", "DateOrDatetime", "Balance",
     "ProprietaryReference", "References", "ProprietaryBankTransactionCode",
     "BankTransactionCode", "PrivateIdentification", "Identification",
     "PartyIdentification", "PartyChoice", "CashAccount", "RelatedParties",
     "RelatedAgents", "RelatedRemittanceInformation", "TransactionDetails",
     "EntryDetails", "Entry", "Report", "BankToCustomerAccountReport"}

\* The tag of the element each parser is given.
TagOf(entity) ==
    CASE entity = "MessagePagination" -> "MsgPgntn"
      [] entity = "GroupHeader" -> "GrpHdr"
      [] entity = "FinancialInstitutionIdentification" -> "FinInstnId"
      [] entity = "Servicer" -> "Svcr"
      [] entity = "Account" -> "Acct"
      [] entity = "BalanceType" -> "Tp"
      [] entity = "Amount" -> "Amt"
      [] entity = "DateOrDatetime" -> "Dt"
      [] entity = "Balance" -> "Bal"
      [] entity = "ProprietaryReference" -> "Prtry"
      [] entity = "References" -> "Refs"
      [] entity = "ProprietaryBankTransactionCode" -> "Prtry"
      [] entity = "BankTransactionCode" -> "BkTxCd"
      [] entity = "PrivateIdentification" -> "PrvtId"
      [] entity = "Identification" -> "Id"
      [] entity = "PartyIdentification" -> "Cdtr"
      [] entity = "PartyChoice" -> "Dbtr"
      [] entity = "CashAccount" -> "DbtrAcct"
      [] entity = "RelatedParties" -> "RltdPties"
      [] entity = "RelatedAgents" -> "RltdAgts"
      [] entity = "RelatedRemittanceInformation" -> "RmtInf"
      [] entity = "TransactionDetails" -> "TxDtls"
      [] entity = "EntryDetails" -> "NtryDtls"
      [] entity = "Entry" -> "Ntry"
      [] entity = "Report" -> "Rpt"
      [] entity = "BankToCustomerAccountReport" -> "BkToCstmrAcctRpt"

\* The children an element of each kind is built from.
Kids(entity) ==
    CASE entity = "MessagePagination" ->
            {T("PgNb", "1"), T("PgNb", "one"), T("LastPgInd", "true"),
             T("LastPgInd", "false"), Empty("LastPgInd"), Foo}
      [] entity = "GroupHeader" ->
            {T("MsgId", "MSG2"), T("CreDtTm", "2024-01-02T10:30:00"),
             T("CreDtTm", "yesterday"), E("MsgPgntn", <<T("PgNb", "1")>>), Foo}
      [] entity = "FinancialInstitutionIdentification" ->
            {T("BIC", "BANKDEFF"), Empty("BIC"), T("Nm", "Bank"),
             E("Othr", <<T("Id", "X1")>>), Empty("Othr"), Foo}
      [] entity = "Servicer" -> {FinInstnIdOK, FinInstnIdBad, Foo}
      [] entity = "Account" ->
            {IdIBAN, E("Id", <<T("Othr", "X1")>>), Empty("Id"),
             E("Id", <<T("IBAN", "DE00"), Foo>>), T("Ccy", "EUR"),
             E("Svcr", <<FinInstnIdOK>>), Foo}
      [] entity = "BalanceType" ->
            {E("CdOrPrtry", <<T("Cd", c)>>) :
                c \in {"CLAV", "CLBD", "FWAV", "OPBD", "PRCD", "OPAV", "clav", " CLAV", "XXXX"}}
            \cup {E("CdOrPrtry", <<T("Prtry", "CLAV")>>), Empty("CdOrPrtry"),
                  E("CdOrPrtry", <<Empty("Cd")>>),
                  E("CdOrPrtry", <<T("Cd", "CLAV"), T("Cd", "CLBD")>>),
                  E("Foo", <<T("Cd", "CLAV")>>)}
      [] entity = "Amount" -> {}
      [] entity = "DateOrDatetime" ->
            {T("Dt", "2024-01-01"), T("DtTm", "2024-01-02T10:30:00"), T("Dt", "soon"),
             Empty("DtTm"), T("Foo", "2024-01-01")}
      [] entity = "Balance" ->
            {TpOK, E("Tp", <<E("CdOrPrtry", <<T("Prtry", "CLAV")>>)>>),
             E("Tp", <<E("CdOrPrtry", <<T("Cd", "XXXX")>>)>>),
             AmtOK, Elem(NS, "Amt", Str("12.34"), NoAttrib, <<>>),
             T("CdtDbtInd", "DBIT"), T("CdtDbtInd", "XXXX"),
             E("Dt", <<T("DtTm", "2024-01-02T10:30:00")>>), E("Dt", <<T("Dt", "soon")>>),
             Empty("Dt"), Foo}
      [] entity = "ProprietaryReference" -> {T("Tp", "T1"), T("Ref", "R1"), Empty("Ref"), Foo}
      [] entity = "References" ->
            {T("EndToEndId", "E2E"), Empty("EndToEndId"), T("MndtId", "M1"),
             E("Prtry", <<T("Tp", "T1"), T("Ref", "R1")>>), E("Prtry", <<Foo>>), Foo}
      [] entity = "ProprietaryBankTransactionCode" ->
            {T("Cd", "C1"), T("Issr", "I1"), Empty("Issr"), Foo}
      [] entity = "BankTransactionCode" ->
            {E("Prtry", <<T("Cd", "C1"), T("Issr", "I1")>>), E("Prtry", <<Foo>>),
             E("Domn", <<T("Cd", "C1")>>), Foo}
      [] entity = "PrivateIdentification" ->
            {E("Othr", <<T("Id", "X1")>>), Empty("Othr"), Foo}
      [] entity = "Identification" ->
            {E("PrvtId", <<E("Othr", <<T("Id", "X1")>>)>>), E("PrvtId", <<Foo>>),
             E("OrgId", <<>>), Foo}
      [] entity \in {"PartyIdentification", "PartyChoice"} ->
            {FinInstnIdOK, FinInstnIdTwo, FinInstnIdBad, T("Nm", "Alice"),
             E("Id", <<E("PrvtId", <<E("Othr", <<T("Id", "X1")>>)>>)>>),
             E("Id", <<FinInstnIdOK>>), Foo}
      [] entity = "CashAccount" ->
            {IdIBAN, E("Id", <<T("Othr", "X1")>>), Empty("Id"),
             E("Id", <<T("IBAN", "DE00"), Foo>>), Foo}
      [] entity = "RelatedParties" ->
            {E("Dbtr", <<T("Nm", "Alice")>>), E("Dbtr", <<FinInstnIdOK>>),
             E("Dbtr", <<FinInstnIdOK, T("Nm", "Alice")>>), E("DbtrAcct", <<IdIBAN>>),
             E("Cdtr", <<FinInstnIdOK>>), E("Cdtr", <<Foo>>), E("CdtrAcct", <<IdIBAN>>), Foo}
      [] entity = "RelatedAgents" ->
            {E("DbtrAgt", <<FinInstnIdOK>>), E("DbtrAgt", <<FinInstnIdTwo>>),
             E("DbtrAgt", <<FinInstnIdOK, Foo>>), Empty("DbtrAgt"),
             E("DbtrAgt", <<E("Foo", <<T("BIC", "BANKDEFF")>>)>>),
             E("DbtrAgt", <<Empty("FinInstnId")>>),
             E("CdtrAgt", <<FinInstnIdOK>>), E("CdtrAgt", <<FinInstnIdTwo>>), Foo}
      [] entity = "RelatedRemittanceInformation" ->
            {T("Ustrd", "Invoice 1"), Empty("Ustrd"), Foo}
      [] entity = "TransactionDetails" ->
            {E("Refs", <<T("EndToEndId", "E2E")>>),
             E("BkTxCd", <<E("Prtry", <<T("Cd", "C1"), T("Issr", "I1")>>)>>),
             E("BkTxCd", <<>>), E("RltdPties", <<E("Dbtr", <<T("Nm", "Alice")>>)>>),
             E("RltdAgts", <<E("DbtrAgt", <<FinInstnIdOK>>)>>), RltdAgtsOK,
             E("RmtInf", <<T("Ustrd", "Invoice 1")>>), Foo}
      [] entity = "EntryDetails" -> {TxDtlsOK, E("TxDtls", <<>>), E("TxDtls", <<Foo>>), Foo}
      [] entity = "Entry" ->
            {AmtOK, Elem(NS, "Amt", Str("abc"), NoAttrib, <<>>), T("CdtDbtInd", "CRDT"),
             T("Sts", "BOOK"), T("Sts", "XXXX"), E("BookgDt", <<T("Dt", "2024-01-01")>>),
             Empty("ValDt"), T("AcctSvcrRef", "REF1"), E("NtryDtls", <<TxDtlsOK>>),
             T("AddtlNtryInf", "note"), Empty("BkTxCd"), E("BkTxCd", <<Foo, Foo>>),
             E("BkTxCd", <<E("Prtry", <<T("Cd", "C1")>>)>>), Foo}
      [] entity = "Report" ->
            {T("Id", "RPT2"), T("ElctrncSeqNb", "1"), T("ElctrncSeqNb", "one"),
             T("CreDtTm", "2024-01-01"), AcctOK, E("Acct", <<>>),
             E("Bal", <<TpOK, AmtOK, T("CdtDbtInd", "CRDT"), DtOK>>), E("Bal", <<>>),
             E("Ntry", <<AmtOK, T("CdtDbtInd", "CRDT"), T("Sts", "BOOK")>>),
             E("Ntry", <<>>), Foo}
      [] entity = "BankToCustomerAccountReport" ->
            {GrpHdrOK, E("GrpHdr", <<>>), RptOK, E("Rpt", <<>>), Foo}

\* The children that set every required field of an element.
Base(entity) ==
    CASE entity = "GroupHeader" -> <<T("MsgId", "MSG1"), T("CreDtTm", "2024-01-01T00:00:00")>>
      [] entity = "Account" -> <<IdIBAN>>
      [] entity = "Balance" -> <<TpOK, AmtOK, T("CdtDbtInd", "CRDT"), DtOK>>
      [] entity = "TransactionDetails" -> <<RltdAgtsOK>>
      [] entity = "EntryDetails" -> <<TxDtlsOK>>
      [] entity = "Entry" -> <<AmtOK, T("CdtDbtInd", "CRDT"), T("Sts", "BOOK")>>
      [] entity = "Report" -> <<T("Id", "RPT1"), AcctOK>>
      [] entity = "BankToCustomerAccountReport" -> <<GrpHdrOK>>
      [] OTHER -> <<>>

AmtElems ==
    {Elem(NS, "Amt", text, attrib, <<>>) :
        text \in {Str("12.34"), Str("12.340"), Str("abc"), None},
        attrib \in {NoAttrib, [a \in {"Ccy"} |-> "EUR"]}}

\* The elements of a kind with at most n children beyond the required ones.
Inputs(entity, n) ==
    IF entity = "Amount" THEN AmtElems
    ELSE {E(TagOf(entity), b \o x) :
             b \in {<<>>, Base(entity)}, x \in SeqsUpTo(Kids(entity), n)}

\* The entity whose element holds an element of this kind, and the children
\* of that element around it.
Parent(entity) ==
    CASE entity \in {"GroupHeader", "Report"} -> "BankToCustomerAccountReport"
      [] entity = "MessagePagination" -> "GroupHeader"
      [] entity \in {"Account", "Balance", "Entry"} -> "Report"
      [] entity = "Servicer" -> "Account"
      [] entity = "FinancialInstitutionIdentification" -> "Servicer"
      [] entity \in {"BalanceType", "DateOrDatetime"} -> "Balance"
      [] entity \in {"Amount", "EntryDetails"} -> "Entry"
      [] entity = "TransactionDetails" -> "EntryDetails"
      [] entity \in {"References", "BankTransactionCode", "RelatedParties", "RelatedAgents",
                     "RelatedRemittanceInformation"} -> "TransactionDetails"
      [] entity = "ProprietaryReference" -> "References"
      [] entity = "ProprietaryBankTransactionCode" -> "BankTransactionCode"
      [] entity \in {"PartyChoice", "PartyIdentification", "CashAccount"} -> "RelatedParties"
      [] entity = "Identification" -> "PartyIdentification"
      [] entity = "PrivateIdentification" -> "Identification"

Around(entity, e) ==
    CASE entity = "GroupHeader" -> <<e, RptOK>>
      [] entity = "Account" -> <<T("Id", "RPT1"), e>>
      [] entity = "BalanceType" -> <<e, AmtOK, T("CdtDbtInd", "CRDT"), DtOK>>
      [] entity = "DateOrDatetime" -> <<TpOK, AmtOK, T("CdtDbtInd", "CRDT"), e>>
      [] entity = "Amount" -> <<e, T("CdtDbtInd", "CRDT"), T("Sts", "BOOK")>>
      [] entity = "RelatedAgents" -> <<e>>
      [] OTHER -> Base(Parent(entity)) \o <<e>>

RECURSIVE DocOf(_, _)
DocOf(entity, e) ==
    IF entity = "BankToCustomerAccountReport" THEN E("Document", <<e>>)
    ELSE DocOf(Parent(entity), E(TagOf(Parent(entity)), Around(entity, e)))

\* Roots of every shape parse_etree tells apart.
RootDocs ==
    {Elem(ns, root, None, NoAttrib, kids) :
        ns \in {NS, ""}, root \in {"Document", "Doc"},
        kids \in SeqsUpTo({E("BkToCstmrAcctRpt", <<GrpHdrOK, RptOK>>),
                           Elem("", "BkToCstmrAcctRpt", None, NoAttrib, <<GrpHdrOK>>),
                           E("BkToCstmrAcctRpt", <<Foo>>), GrpHdrOK, Foo}, MaxKids)}

Docs ==
    RootDocs \cup
    UNION {{DocOf(entity, e) : e \in Inputs(entity, MaxDocKids)} : entity \in Entities}

(* ------------------------------------------------------------------ *)
(* The state machine: one call of the module per behaviour, then the    *)
(* serialization of what it returned (as main does).  The functions     *)
(* keep no state between calls.                                         *)
(* ------------------------------------------------------------------ *)
Pending == [k |-> "pending"]

Init ==
    /\ op = "init"
    /\ arg = None
    /\ res = Pending
    /\ out = Pending

\* parse_file(path) on a file holding the document.
Call_parse_file ==
    /\ op = "init"
    /\ \E doc \in Docs :
          /\ op' = "parse_file"
          /\ arg' = doc
          /\ res' = parse_file(doc)
    /\ UNCHANGED out

\* parse_string(data) on the text of the document.
Call_parse_string ==
    /\ op = "init"
    /\ \E doc \in Docs :
          /\ op' = "parse_string"
          /\ arg' = doc
          /\ res' = parse_string(doc)
    /\ UNCHANGED out

\* X.parse_xml(tree), or the parse function of X, on an element.
Call_parse_xml ==
    /\ op = "init"
    /\ \E entity \in Entities :
          \E tree \in Inputs(entity, MaxKids) :
             /\ op' = entity
             /\ arg' = tree
             /\ res' = Parse(entity, tree)
    /\ UNCHANGED out

\* value.to_dict_tree() on the value the call returned.
Call_to_dict_tree ==
    /\ op # "init"
    /\ out = Pending
    /\ ~ Raised(res)
    /\ out' = to_dict_tree(res.val)
    /\ UNCHANGED <<op, arg, res>>

Next ==
    \/ Call_parse_file
    \/ Call_parse_string
    \/ Call_parse_xml
    \/ Call_to_dict_tree

Spec == Init /\ [][Next]_vars

(* ------------------------------------------------------------------ *)
(* Properties                                                           *)
(* ------------------------------------------------------------------ *)
Outcome(r) == <<r.exc, r.val>>

RemoveAt(seq, i) == SubSeq(seq, 1, i - 1) \o SubSeq(seq, i + 1, Len(seq))

Occurrences(kids, tag) == {i \in 1..Len(kids) : strip_ns(kids[i].tag) = tag}

TagsOf(kids) == {strip_ns(kids[i].tag) : i \in 1..Len(kids)}

\* The entities with a fixed set of child tags, and that set.
ClosedWorldEntities == Entities \ {"BalanceType", "Amount", "DateOrDatetime", "Entry", "PartyChoice"}

Recognized(entity) ==
    CASE entity = "MessagePagination" -> {"PgNb", "LastPgInd"}
      [] entity = "GroupHeader" -> {"MsgId", "CreDtTm", "MsgPgntn"}
      [] entity = "FinancialInstitutionIdentification" -> {"BIC", "Nm", "Othr"}
      [] entity = "Servicer" -> {"FinInstnId"}
      [] entity = "Account" -> {"Id", "Ccy", "Svcr"}
      [] entity = "Balance" -> {"Tp", "Amt", "CdtDbtInd", "Dt"}
      [] entity = "ProprietaryReference" -> {"Tp", "Ref"}
      [] entity = "References" -> {"EndToEndId", "MndtId", "Prtry"}
      [] entity = "ProprietaryBankTransactionCode" -> {"Cd", "Issr"}
      [] entity = "BankTransactionCode" -> {"Prtry"}
      [] entity = "PrivateIdentification" -> {"Othr"}
      [] entity = "Identification" -> {"PrvtId"}
      [] entity = "PartyIdentification" -> {"Nm", "Id"}
      [] entity = "CashAccount" -> {"Id"}
      [] entity = "RelatedParties" -> {"Dbtr", "DbtrAcct", "Cdtr", "CdtrAcct"}
      [] entity = "RelatedAgents" -> {"DbtrAgt", "CdtrAgt"}
      [] entity = "RelatedRemittanceInformation" -> {"Ustrd"}
      [] entity = "TransactionDetails" -> {"Refs", "BkTxCd", "RltdPties", "RltdAgts", "RmtInf"}
      [] entity = "EntryDetails" -> {"TxDtls"}
      [] entity = "Report" -> {"Id", "ElctrncSeqNb", "CreDtTm", "Acct", "Bal", "Ntry"}
      [] entity = "BankToCustomerAccountReport" -> {"GrpHdr", "Rpt"}

\* The fixed wrapper children of an entity and the one tag each may hold.
WrapperOf(entity) ==
    CASE entity \in {"Account", "CashAccount"} -> {<<"Id", "IBAN">>}
      [] entity = "RelatedAgents" -> {<<"DbtrAgt", "FinInstnId">>, <<"CdtrAgt", "FinInstnId">>}
      [] OTHER -> {}

\* The tags of the children, and of the wrappers' children, not recognized.
UnknownTags(entity, tree) ==
    (TagsOf(tree.kids) \ Recognized(entity))
    \cup UNION {UNION {TagsOf(tree.kids[i].kids) \ {w[2]} : i \in Occurrences(tree.kids, w[1])} :
                   w \in WrapperOf(entity)}

\* The name an error message gives the entity.
Label(entity) ==
    IF entity = "BankToCustomerAccountReport" THEN "BkToCstmrAcctRpt" ELSE entity

\* C1 (as claimed): an element of a closed-world entity with an unrecognized
\* child (its wrappers' children included) is never accepted, and a
\* ParseError of that entity names an unrecognized child of the element.
C1_ClosedWorldRejection ==
    (op \in ClosedWorldEntities /\ UnknownTags(op, arg) # {})
        => /\ Raised(res)
           /\ (res.exc.kind = "ParseError" /\ res.exc.entity = Label(op))
                 => res.exc.tag.local \in UnknownTags(op, arg)

BalanceFull(b) ==
    b.balance_type # None /\ b.amount # None /\ b.credit_debit # None /\ b.date # None

EntryFull(e) ==
    /\ e.amount # None /\ e.credit_debit # None /\ e.status # None
    /\ \A i \in 1..Len(e.details.items) : e.details.items[i].transaction_details # None

ReportFull(r) ==
    /\ r.identification # None
    /\ r.account # None
    /\ r.account.iban # None
    /\ \A i \in 1..Len(r.balances.items) : BalanceFull(r.balances.items[i])
    /\ \A i \in 1..Len(r.entries.items) : EntryFull(r.entries.items[i])

DocumentFull(d) ==
    /\ d.group_header # None
    /\ d.group_header.message_identification # None
    /\ d.group_header.creation_time # None
    /\ \A i \in 1..Len(d.reports.items) : ReportFull(d.reports.items[i])

\* C2 (as claimed): a document that parse_etree returns has every required
\* field set, in every record.
C2_FullyPopulatedOrError ==
    (op = "parse_file" /\ ~ Raised(res)) => DocumentFull(res.val)

\* C3 (as claimed): whatever parse_etree raises is a ParseError.
C3_SingleErrorKind ==
    (op = "parse_file" /\ Raised(res)) => res.exc.kind = "ParseError"

RootShapeBad(doc) ==
    \/ strip_ns(doc.tag) # "Document"
    \/ Len(doc.kids) # 1
    \/ strip_ns(doc.kids[1].tag) # "BkToCstmrAcctRpt"

\* C4: parse_etree raises a ParseError before any entity parser is entered,
\* and returns nothing, exactly when the root is not Document or has not
\* exactly one child, BkToCstmrAcctRpt; otherwise the outcome is that of
\* BankToCustomerAccountReport.parse_xml on that child.
C4_RootShapeFirst ==
    op = "parse_file" =>
        IF RootShapeBad(arg)
        THEN /\ Raised(res) /\ res.exc.kind = "ParseError"
             /\ res.val = None
             /\ res.log = <<>>
        ELSE /\ res.log # <<>>
             /\ Head(res.log) = "BankToCustomerAccountReport"
             /\ res = BankToCustomerAccountReport_parse_xml(arg.kids[1])

C4_Witness ==
    /\ op = "parse_file"
    /\ strip_ns(arg.tag) = "Document"
    /\ Len(arg.kids) = 2
    /\ strip_ns(arg.kids[1].tag) = "BkToCstmrAcctRpt"
    /\ Raised(res) /\ res.log = <<>>

\* C5 (as claimed): parse_string of a text has the outcome of parse_file of a
\* file holding it.
C5_EntryPointsAgree ==
    op = "parse_string" => Outcome(res) = Outcome(parse_file(arg))

\* The optional children of an entity: <<tag, field>>.
OptionalOf(entity) ==
    CASE entity = "TransactionDetails" ->
            {<<"Refs", "references">>, <<"BkTxCd", "bank_transaction_code">>,
             <<"RltdPties", "related_parties">>, <<"RltdAgts", "related_agents">>}
      [] entity = "GroupHeader" -> {<<"MsgPgntn", "message_pagination">>}
      [] entity = "Account" -> {<<"Ccy", "currency">>, <<"Svcr", "servicer">>}
      [] entity = "Entry" ->
            {<<"BookgDt", "booking_date">>, <<"ValDt", "value_date">>,
             <<"AcctSvcrRef", "account_service_reference">>,
             <<"AddtlNtryInf", "additional_information">>}
      [] entity = "Report" ->
            {<<"ElctrncSeqNb", "eletronic_sequence_number">>, <<"CreDtTm", "creation_time">>}
      [] entity = "RelatedParties" ->
            {<<"Dbtr", "debtor">>, <<"DbtrAcct", "debtor_account">>,
             <<"Cdtr", "creditor">>, <<"CdtrAcct", "creditor_account">>}
      [] entity = "RelatedAgents" ->
            {<<"DbtrAgt", "debtor_agent">>, <<"CdtrAgt", "creditor_agent">>}
      [] OTHER -> {}

\* C6 (as claimed): when an element parses, the element without one of its
\* optional children parses too, to the same record with that field unset.
C6_OptionalMayBeAbsent ==
    (op \in Entities /\ ~ Raised(res)) =>
        \A p \in OptionalOf(op) :
            \A i \in Occurrences(arg.kids, p[1]) :
                Occurrences(arg.kids, p[1]) = {i} =>
                    LET without == Parse(op, [arg EXCEPT !.kids = RemoveAt(@, i)])
                    IN  /\ ~ Raised(without)
                        /\ without.val = [res.val EXCEPT ![p[2]] = None]

\* C7 (as claimed): to_dict_tree of a document that parse returned, with
\* its required fields set, completes and gives groupHeader and the reports
\* array.
C7_SerializationTotal ==
    (op = "parse_file" /\ ~ Raised(res) /\ DocumentFull(res.val) /\ out # Pending)
        => /\ ~ Raised(out)
           /\ DOMAIN out.val.m = {"groupHeader", "reports"}
           /\ out.val.m.reports.k = "list"

InstitutionShape(tree) ==
    Len(tree.kids) = 1 /\ strip_ns(tree.kids[1].tag) = "FinInstnId"

\* C8: Dbtr/Cdtr with exactly one child, FinInstnId, gives what
\* FinancialInstitutionIdentification.parse_xml gives for that child, and
\* PartyIdentification.parse_xml is not entered; every other shape gives what
\* PartyIdentification.parse_xml gives for the element itself, which rejects
\* a FinInstnId child.
C8_PartyChoice ==
    op = "PartyChoice" =>
        IF InstitutionShape(arg)
        THEN /\ Outcome(res) = Outcome(FinancialInstitutionIdentification_parse_xml(arg.kids[1]))
             /\ \A i \in 1..Len(res.log) : res.log[i] # "PartyIdentification"
             /\ ~ Raised(res) => res.val.k = "FinancialInstitutionIdentification"
        ELSE /\ Outcome(res) = Outcome(PartyIdentification_parse_xml(arg))
             /\ \A i \in 1..Len(res.log) : res.log[i] # "FinancialInstitutionIdentification"
             /\ ~ Raised(res) => res.val.k = "PartyIdentification"
             /\ "FinInstnId" \in TagsOf(arg.kids) => Raised(res)

C8_Witness ==
    /\ op = "PartyChoice"
    /\ Len(arg.kids) = 2
    /\ strip_ns(arg.kids[1].tag) = "FinInstnId"
    /\ Raised(res) /\ res.exc = ParseError(Stripped(arg.kids[1].tag), "PartyIdentification")

AgentTags == {"DbtrAgt", "CdtrAgt"}

WrapperShapeOK(w) == Len(w.kids) = 1 /\ strip_ns(w.kids[1].tag) = "FinInstnId"

\* C9 (as claimed): RltdAgts parses only if every DbtrAgt/CdtrAgt has exactly
\* one child, FinInstnId; and it parses when they all do and each FinInstnId
\* parses, however many children FinInstnId has.
C9_AgentWrapperShape ==
    op = "RelatedAgents" =>
        /\ ~ Raised(res) =>
              \A i \in 1..Len(arg.kids) :
                  strip_ns(arg.kids[i].tag) \in AgentTags => WrapperShapeOK(arg.kids[i])
        /\ (\A i \in 1..Len(arg.kids) :
               /\ strip_ns(arg.kids[i].tag) \in AgentTags
               /\ WrapperShapeOK(arg.kids[i])
               /\ ~ Raised(FinancialInstitutionIdentification_parse_xml(arg.kids[i].kids[1])))
              => ~ Raised(res)

IsBkTxCd(child) == strip_ns(child.tag) = "BkTxCd"

NotBkTxCd(child) == ~ IsBkTxCd(child)

NotBkTxCdName(name) == name # "BkTxCd"

\* C10: an Entry element and the same element without its BkTxCd children
\* have the same outcome, and the children visited and parsers entered are
\* the same but for the visits of the BkTxCd children themselves.
C10_EntryIgnoresBkTxCd ==
    op = "Entry" =>
        LET without == Entry_parse_xml([arg EXCEPT !.kids = SelectSeq(@, NotBkTxCd)])
        IN  /\ Outcome(res) = Outcome(without)
            /\ SelectSeq(res.log, NotBkTxCdName) = without.log

C10_Witness ==
    /\ op = "Entry"
    /\ ~ Raised(res)
    /\ \E i \in 1..Len(arg.kids) : IsBkTxCd(arg.kids[i]) /\ Len(arg.kids[i].kids) = 2
    /\ \E i \in 1..Len(arg.kids) : IsBkTxCd(arg.kids[i]) /\ Len(arg.kids[i].kids) = 0

BalanceTypeCodes == {"CLAV", "CLBD", "FWAV", "OPBD", "PRCD", "OPAV"}

\* Tp has exactly one child CdOrPrtry, which has exactly one child Cd.
TpShape(tree) ==
    /\ Len(tree.kids) = 1
    /\ strip_ns(tree.kids[1].tag) = "CdOrPrtry"
    /\ Len(tree.kids[1].kids) = 1
    /\ strip_ns(tree.kids[1].kids[1].tag) = "Cd"

\* C11: BalanceType.parse_xml returns a balance type exactly when Tp holds
\* one CdOrPrtry holding one Cd whose text is one of the six codes, and the
\* member returned is the one of that code; everything else fails.
C11_BalanceTypeDecoding ==
    op = "BalanceType" =>
        LET accepted == /\ TpShape(arg)
                        /\ arg.kids[1].kids[1].text.k = "str"
                        /\ arg.kids[1].kids[1].text.s \in BalanceTypeCodes
        IN  /\ ~ Raised(res) <=> accepted
            /\ accepted => /\ res.val.k = "BalanceType"
                           /\ Str(res.val.value) = arg.kids[1].kids[1].text
            /\ ~ accepted => res.val = None

C11_Witness ==
    /\ op = "BalanceType"
    /\ ~ Raised(res)
    /\ res.val = EnumMember("BalanceType", "OpeningAvailable", "OPAV")

\* The last child with a tag: the one a singular field is read from.
LastKid(tree, tag) ==
    tree.kids[CHOOSE i \in Occurrences(tree.kids, tag) :
                 \A j \in Occurrences(tree.kids, tag) : j <= i]

Has(tree, tag) == Occurrences(tree.kids, tag) # {}

\* The leaf under key equals the text of the last child with the tag.
LeafIsText(key, tag) == Has(arg, tag) => out.val.m[key] = LastKid(arg, tag).text

\* C12 (as claimed, with dates and amounts compared by value): after
\* to_dict_tree, the string leaves and the enum-coded leaves equal the text
\* of the element they were read from, a date leaf is the instant of its
\* text, an amount's currency is the Ccy attribute.
C12_ValueRoundTrip ==
    (out # Pending /\ ~ Raised(out)) =>
        /\ op = "FinancialInstitutionIdentification" =>
              LeafIsText("bicfi", "BIC") /\ LeafIsText("name", "Nm")
        /\ op = "References" =>
              /\ LeafIsText("end_to_end_identification", "EndToEndId")
              /\ LeafIsText("mandate_identification", "MndtId")
        /\ op = "Account" => LeafIsText("currency", "Ccy")
        /\ op = "Amount" => out.val.m.currency = Str(arg.attrib["Ccy"])
        /\ op = "Balance" =>
              /\ LeafIsText("creditDebit", "CdtDbtInd")
              /\ Has(arg, "Tp") =>
                    out.val.m.balanceType = LastKid(arg, "Tp").kids[1].kids[1].text
              /\ Has(arg, "Dt") =>
                    out.val.m.date = Str(IsoTable[LastKid(arg, "Dt").kids[1].text.s])
        /\ op = "Entry" =>
              /\ LeafIsText("creditDebit", "CdtDbtInd")
              /\ LeafIsText("status", "Sts")
              /\ LeafIsText("accountServiceReference", "AcctSvcrRef")
              /\ LeafIsText("additionalInformation", "AddtlNtryInf")

\* The keys the to_dict_tree methods write, spelled character by character.
KeySpelling(key) ==
    CASE key = "pageNumber" -> <<"p", "a", "g", "e", "N", "u", "m", "b", "e", "r">>
          [] key = "last_page_indication" -> <<"l", "a", "s", "t", "_", "p", "a", "g", "e", "_", "i", "n", "d", "i", "c", "a", "t", "i", "o", "n">>
          [] key = "messageIdentification" -> <<"m", "e", "s", "s", "a", "g", "e", "I", "d", "e", "n", "t", "i", "f", "i", "c", "a", "t", "i", "o", "n">>
          [] key = "creationTime" -> <<"c", "r", "e", "a", "t", "i", "o", "n", "T", "i", "m", "e">>
          [] key = "messagePagination" -> <<"m", "e", "s", "s", "a", "g", "e", "P", "a", "g", "i", "n", "a", "t", "i", "o", "n">>
          [] key = "bicfi" -> <<"b", "i", "c", "f", "i">>
          [] key = "name" -> <<"n", "a", "m", "e">>
          [] key = "other" -> <<"o", "t", "h", "e", "r">>
          [] key = "financialInstitutionIdentification" -> <<"f", "i", "n", "a", "n", "c", "i", "a", "l", "I", "n", "s", "t", "i", "t", "u", "t", "i", "o", "n", "I", "d", "e", "n", "t", "i", "f", "i", "c", "a", "t", "i", "o", "n">>
          [] key = "iban" -> <<"i", "b", "a", "n">>
          [] key = "currency" -> <<"c", "u", "r", "r", "e", "n", "c", "y">>
          [] key = "servicer" -> <<"s", "e", "r", "v", "i", "c", "e", "r">>
          [] key = "value" -> <<"v", "a", "l", "u", "e">>
          [] key = "balanceType" -> <<"b", "a", "l", "a", "n", "c", "e", "T", "y", "p", "e">>
          [] key = "amount" -> <<"a", "m", "o", "u", "n", "t">>
          [] key = "creditDebit" -> <<"c", "r", "e", "d", "i", "t", "D", "e", "b", "i", "t">>
          [] key = "date" -> <<"d", "a", "t", "e">>
          [] key = "type" -> <<"t", "y", "p", "e">>
          [] key = "reference" -> <<"r", "e", "f", "e", "r", "e", "n", "c", "e">>
          [] key = "end_to_end_identification" -> <<"e", "n", "d", "_", "t", "o", "_", "e", "n", "d", "_", "i", "d", "e", "n", "t", "i", "f", "i", "c", "a", "t", "i", "o", "n">>
          [] key = "mandate_identification" -> <<"m", "a", "n", "d", "a", "t", "e", "_", "i", "d", "e", "n", "t", "i", "f", "i", "c", "a", "t", "i", "o", "n">>
          [] key = "proprietaryReference" -> <<"p", "r", "o", "p", "r", "i", "e", "t", "a", "r", "y", "R", "e", "f", "e", "r", "e", "n", "c", "e">>
          [] key = "code" -> <<"c", "o", "d", "e">>
          [] key = "issuer" -> <<"i", "s", "s", "u", "e", "r">>
          [] key = "identification" -> <<"i", "d", "e", "n", "t", "i", "f", "i", "c", "a", "t", "i", "o", "n">>
          [] key = "debtor" -> <<"d", "e", "b", "t", "o", "r">>
          [] key = "debtorAccount" -> <<"d", "e", "b", "t", "o", "r", "A", "c", "c", "o", "u", "n", "t">>
          [] key = "creditor" -> <<"c", "r", "e", "d", "i", "t", "o", "r">>
          [] key = "creditorAccount" -> <<"c", "r", "e", "d", "i", "t", "o", "r", "A", "c", "c", "o", "u", "n", "t">>
          [] key = "debtorAgent" -> <<"d", "e", "b", "t", "o", "r", "A", "g", "e", "n", "t">>
          [] key = "creditorAgent" -> <<"c", "r", "e", "d", "i", "t", "o", "r", "A", "g", "e", "n", "t">>
          [] key = "unstructured" -> <<"u", "n", "s", "t", "r", "u", "c", "t", "u", "r", "e", "d">>
          [] key = "references" -> <<"r", "e", "f", "e", "r", "e", "n", "c", "e", "s">>
          [] key = "bankTransactionCode" -> <<"b", "a", "n", "k", "T", "r", "a", "n", "s", "a", "c", "t", "i", "o", "n", "C", "o", "d", "e">>
          [] key = "relatedAgents" -> <<"r", "e", "l", "a", "t", "e", "d", "A", "g", "e", "n", "t", "s">>
          [] key = "relatedParties" -> <<"r", "e", "l", "a", "t", "e", "d", "P", "a", "r", "t", "i", "e", "s">>
          [] key = "relatedRemittanceInformation" -> <<"r", "e", "l", "a", "t", "e", "d", "R", "e", "m", "i", "t", "t", "a", "n", "c", "e", "I", "n", "f", "o", "r", "m", "a", "t", "i", "o", "n">>
          [] key = "transactionDetails" -> <<"t", "r", "a", "n", "s", "a", "c", "t", "i", "o", "n", "D", "e", "t", "a", "i", "l", "s">>
          [] key = "status" -> <<"s", "t", "a", "t", "u", "s">>
          [] key = "bookingDate" -> <<"b", "o", "o", "k", "i", "n", "g", "D", "a", "t", "e">>
          [] key = "valueDate" -> <<"v", "a", "l", "u", "e", "D", "a", "t", "e">>
          [] key = "accountServiceReference" -> <<"a", "c", "c", "o", "u", "n", "t", "S", "e", "r", "v", "i", "c", "e", "R", "e", "f", "e", "r", "e", "n", "c", "e">>
          [] key = "details" -> <<"d", "e", "t", "a", "i", "l", "s">>
          [] key = "additionalInformation" -> <<"a", "d", "d", "i", "t", "i", "o", "n", "a", "l", "I", "n", "f", "o", "r", "m", "a", "t", "i", "o", "n">>
          [] key = "eletronicSequenceNumber" -> <<"e", "l", "e", "t", "r", "o", "n", "i", "c", "S", "e", "q", "u", "e", "n", "c", "e", "N", "u", "m", "b", "e", "r">>
          [] key = "account" -> <<"a", "c", "c", "o", "u", "n", "t">>
          [] key = "balances" -> <<"b", "a", "l", "a", "n", "c", "e", "s">>
          [] key = "entries" -> <<"e", "n", "t", "r", "i", "e", "s">>
          [] key = "groupHeader" -> <<"g", "r", "o", "u", "p", "H", "e", "a", "d", "e", "r">>
          [] key = "reports" -> <<"r", "e", "p", "o", "r", "t", "s">>

LowerCaseLetters ==
    {"a", "b", "c", "d", "e", "f", "g", "h", "i", "j", "k", "l", "m", "n", "o", "p", "q",
     "r", "s", "t", "u", "v", "w", "x", "y", "z"}

\* camelCase: starts with a lower-case letter and holds no underscore.
IsCamelCase(key) ==
    LET chars == KeySpelling(key)
    IN  /\ chars[1] \in LowerCaseLetters
        /\ \A i \in 1..Len(chars) : chars[i] # "_"

\* The keys of every map in a tree that to_dict_tree built.  A dict copied
\* from parse_generic_kv_list is a leaf here: its keys are tags of the input.
RECURSIVE KeysIn(_)
KeysIn(v) ==
    IF v.k = "obj"
    THEN DOMAIN v.m \cup UNION {KeysIn(v.m[key]) : key \in DOMAIN v.m}
    ELSE IF v.k = "list" THEN UNION {KeysIn(v.items[i]) : i \in 1..Len(v.items)}
    ELSE {}

\* C13 (as claimed): every key of every map that to_dict_tree emits is
\* camelCase, and the map of a record has one key for each of its fields.
C13_CamelCaseKeys ==
    (out # Pending /\ ~ Raised(out)) =>
        /\ \A key \in KeysIn(out.val) : IsCamelCase(key)
        /\ Cardinality(DOMAIN out.val.m) = Cardinality(DOMAIN res.val \ {"k"})

\* What the loop body of an entity does with one child.
ChildEffect(entity, child) ==
    CASE entity = "Report" -> Report_child(child)
      [] entity = "Entry" -> Entry_child(child)
      [] entity = "EntryDetails" -> EntryDetails_child(child)
      [] entity = "BankToCustomerAccountReport" -> BankToCustomerAccountReport_child(child)

FirstErrorEntities == {"Report", "Entry", "EntryDetails", "BankToCustomerAccountReport"}

\* The children whose own parsing fails.
Offending(entity, tree) ==
    {i \in 1..Len(tree.kids) : ChildEffect(entity, tree.kids[i]).exc # None}

\* The visits of children 1..i, each followed by what its parsing entered.
RECURSIVE VisitsUpTo(_, _, _)
VisitsUpTo(entity, tree, i) ==
    IF i = 0 THEN <<>>
    ELSE VisitsUpTo(entity, tree, i - 1) \o <<strip_ns(tree.kids[i].tag)>>
         \o ChildEffect(entity, tree.kids[i]).log

\* C14: when children of an element are in violation, the error raised is
\* that of the first of them in document order (the error found inside it,
\* depth first), nothing after it is visited, and no record is returned;
\* with no child in violation the element parses.
C14_FirstErrorInDocumentOrder ==
    op \in FirstErrorEntities =>
        LET bad == Offending(op, arg)
            first == CHOOSE i \in bad : \A j \in bad : i <= j
        IN  IF bad = {} THEN ~ Raised(res)
            ELSE /\ res.exc = ChildEffect(op, arg.kids[first]).exc
                 /\ res.val = None
                 /\ res.log = <<op>> \o VisitsUpTo(op, arg, first)

\* Two children in violation, with different errors.
C14_Witness ==
    /\ op \in FirstErrorEntities
    /\ Cardinality(Offending(op, arg)) >= 2
    /\ \E i, j \in Offending(op, arg) :
          /\ i < j
          /\ ChildEffect(op, arg.kids[i]).exc # ChildEffect(op, arg.kids[j]).exc
          /\ res.exc = ChildEffect(op, arg.kids[i]).exc
          /\ Len(ChildEffect(op, arg.kids[i]).log) > 0

\* The list-typed fields: field, child tag, entity of the items.
ListFields(entity) ==
    CASE entity = "Report" -> {<<"balances", "Bal", "Balance">>, <<"entries", "Ntry", "Entry">>}
      [] entity = "Entry" -> {<<"details", "NtryDtls", "EntryDetails">>}
      [] entity = "References" ->
            {<<"proprietary_reference", "Prtry", "ProprietaryReference">>}
      [] entity = "TransactionDetails" ->
            {<<"related_remittance_information", "RmtInf", "RelatedRemittanceInformation">>}
      [] entity = "BankToCustomerAccountReport" -> {<<"reports", "Rpt", "Report">>}
      [] OTHER -> {}

EntryTags ==
    {"Amt", "CdtDbtInd", "Sts", "BookgDt", "ValDt", "AcctSvcrRef", "NtryDtls",
     "AddtlNtryInf", "BkTxCd"}

\* The child tags that set a singular field.
SingularTags(entity) ==
    (IF entity = "Entry" THEN EntryTags ELSE Recognized(entity))
    \ {l[2] : l \in ListFields(entity)}

Matching(tree, tag) == SelectSeq(tree.kids, LAMBDA c : strip_ns(c.tag) = tag)

\* The element without the occurrences of the tag before the last one.
RECURSIVE KeepLast(_, _)
KeepLast(tree, tag) ==
    LET occ == Occurrences(tree.kids, tag)
    IN  IF Cardinality(occ) <= 1 THEN tree
        ELSE KeepLast([tree EXCEPT !.kids = RemoveAt(@, CHOOSE i \in occ : \A j \in occ : i <= j)],
                      tag)

RepetitionEntities == ClosedWorldEntities \cup {"Entry"}

\* C15: after a successful parse, a list field holds the records parsed from
\* the matching children, one each, in document order (none: empty); where
\* the tag of a singular field is repeated the result is the one parsed
\* from the element without the earlier occurrences.
C15_ListAndSingularFields ==
    (op \in RepetitionEntities /\ ~ Raised(res)) =>
        /\ \A l \in ListFields(op) :
              LET m == Matching(arg, l[2])
              IN  res.val[l[1]] = List([i \in 1..Len(m) |-> Parse(l[3], m[i]).val])
        /\ \A tag \in SingularTags(op) :
              /\ ~ Raised(Parse(op, KeepLast(arg, tag)))
              /\ res.val = Parse(op, KeepLast(arg, tag)).val

\* A singular tag given twice with different content, beside an item of a
\* list field.
C15_Witness ==
    /\ op \in RepetitionEntities /\ ~ Raised(res)
    /\ \E l \in ListFields(op) : Len(res.val[l[1]].items) >= 1
    /\ \E tag \in SingularTags(op) : \E i, j \in Occurrences(arg.kids, tag) :
          i < j /\ arg.kids[i] # arg.kids[j]

====
